---- MODULE Spec2Model ----
(***************************************************************************)
(* Neotron-API: the path grammar and decomposition of path::Path           *)
(* (src/src/path.rs) and file::Path (src/src/file.rs).                     *)
(*                                                                         *)
(* A string is a finite sequence of Unicode code points (naturals).  A     *)
(* &str view is modelled by the characters it shows.  Option<T> is a       *)
(* record with a `some` flag, Result<T, Error> a record with a `tag`.      *)
(***************************************************************************)
EXTENDS Naturals, Sequences, FiniteSets

VARIABLES path_str, path, fpath, ret

vars == <<path_str, path, fpath, ret>>

(***************************************************************************)
(* Bounds and inputs                                                       *)
(***************************************************************************)

\* Longest string enumerated exhaustively over Alphabet.
MaxLen == 4

\* LF (a C0 control), '.', '/', ':', 'A', U+0080 (a C1 control), U+00E9.
Alphabet == {10, 46, 47, 58, 65, 128, 233}

\* The strings the unit tests of path.rs and file.rs construct paths from.
TestVectors ==
    { <<72, 68, 48, 58, 47, 68, 79, 67, 85, 77, 69, 78, 84, 83, 47, 74, 85,
        78, 69, 47, 83, 65, 76, 69, 83, 46, 84, 88, 84>>,  \* HD0:/DOCUMENTS/JUNE/SALES.TXT
      <<72, 68, 48, 58>>,                                  \* HD0:
      <<68, 79, 67, 85, 77, 69, 78, 84, 83, 47, 74, 85, 78, 69, 47, 83, 65,
        76, 69, 83, 46, 84, 88, 84>>,                      \* DOCUMENTS/JUNE/SALES.TXT
      <<72, 68, 48, 58, 47, 68, 79, 67, 85, 77, 69, 78, 84, 83, 47, 74, 85,
        78, 69, 47>>,                                      \* HD0:/DOCUMENTS/JUNE/
      <<68, 79, 67, 85, 77, 69, 78, 84, 83, 47>> }         \* DOCUMENTS/

\* The examples of valid paths in the documentation of path::Path.
PathDocExamples ==
    { \* Documents/2023/June/Sales in (U+20AC).xls
      <<68, 111, 99, 117, 109, 101, 110, 116, 115, 47, 50, 48, 50, 51, 47,
        74, 117, 110, 101, 47, 83, 97, 108, 101, 115, 32, 105, 110, 32,
        8364, 46, 120, 108, 115>>,
      \* HD0:/MYDOCU~1/SALES.TXT
      <<72, 68, 48, 58, 47, 77, 89, 68, 79, 67, 85, 126, 49, 47, 83, 65, 76,
        69, 83, 46, 84, 88, 84>>,
      \* SD0:/MYDOCU~1/
      <<83, 68, 48, 58, 47, 77, 89, 68, 79, 67, 85, 126, 49, 47>>,
      \* SD0:/BOOTLDR
      <<83, 68, 48, 58, 47, 66, 79, 79, 84, 76, 68, 82>> }

\* SER0$:/bps=9600/parity=N/timeout=100:
SER0_WITH_PARAMETERS ==
    <<83, 69, 82, 48, 36, 58, 47, 98, 112, 115, 61, 57, 54, 48, 48, 47,
        112, 97, 114, 105, 116, 121, 61, 78, 47, 116, 105, 109, 101, 111,
        117, 116, 61, 49, 48, 48, 58>>

\* The examples of valid paths in the documentation of file::Path: those of
\* path::Path (the first as file.rs spells it) and two device paths.
FileDocExamples ==
    { \* Documents/2023/June/Sales in (U+00E2 U+201A U+00AC).xls
      <<68, 111, 99, 117, 109, 101, 110, 116, 115, 47, 50, 48, 50, 51, 47,
        74, 117, 110, 101, 47, 83, 97, 108, 101, 115, 32, 105, 110, 32, 226,
        8218, 172, 46, 120, 108, 115>>,
      \* CON$:
      <<67, 79, 78, 36, 58>> }
    \cup {SER0_WITH_PARAMETERS} \cup PathDocExamples

Strings(n) == UNION { [1..k -> Alphabet] : k \in 0..n }

Inputs == Strings(MaxLen) \cup TestVectors \cup PathDocExamples \cup FileDocExamples

(***************************************************************************)
(* core::option::Option, core::result::Result, crate::Error                *)
(***************************************************************************)

None == [some |-> FALSE]
Some(x) == [some |-> TRUE, val |-> x]

Ok(p) == [tag |-> "Ok", val |-> p]
Err(e) == [tag |-> "Err", err |-> e]

Error ==
    { "FileNotFound", "FileReadOnly", "EndOfFile", "Unimplemented",
      "InvalidArg", "BadFileHandle", "DeviceSpecific", "OutOfMemory",
      "InvalidPath" }

(***************************************************************************)
(* The str methods the code calls                                          *)
(***************************************************************************)

is_empty(s) == Len(s) = 0

contains(s, c) == \E i \in 1..Len(s) : s[i] = c

starts_with(s, c) == Len(s) > 0 /\ s[1] = c

\* char::is_control: general category Cc, U+0000..U+001F and U+007F..U+009F.
is_control(ch) == ch < 32 \/ (ch >= 127 /\ ch < 160)

\* Index of the first / last occurrence of c in s, 0 when there is none.
find(s, c) ==
    LET I == { i \in 1..Len(s) : s[i] = c }
    IN  IF I = {} THEN 0 ELSE CHOOSE i \in I : \A j \in I : i <= j

rfind(s, c) ==
    LET I == { i \in 1..Len(s) : s[i] = c }
    IN  IF I = {} THEN 0 ELSE CHOOSE i \in I : \A j \in I : j <= i

\* str::split_once / str::rsplit_once: Some((before, after)) of the first /
\* last delimiter, None when the delimiter does not occur.
split_once(s, c) ==
    LET i == find(s, c)
    IN  IF i = 0 THEN None
        ELSE Some(<<SubSeq(s, 1, i - 1), SubSeq(s, i + 1, Len(s))>>)

rsplit_once(s, c) ==
    LET i == rfind(s, c)
    IN  IF i = 0 THEN None
        ELSE Some(<<SubSeq(s, 1, i - 1), SubSeq(s, i + 1, Len(s))>>)

(***************************************************************************)
(* path::Path  (src/src/path.rs)                                           *)
(***************************************************************************)

PATH_SEP == 47
DRIVE_SEP == 58
DOT == 46

\* The string literal "/" that drive_path() and directory() return.
ROOT == <<PATH_SEP>>

\* path_new without the "no colons in directory path" check.
path_new_colon_in_directory(s) ==
    IF is_empty(s) THEN Err("InvalidPath")
    ELSE
      LET sp == split_once(s, DRIVE_SEP)
          struct_ok ==
            IF sp.some THEN
              IF contains(sp.val[1], PATH_SEP) THEN FALSE
              ELSE IF ~is_empty(sp.val[2])
                      /\ ~starts_with(sp.val[2], PATH_SEP) THEN FALSE
              ELSE TRUE
            ELSE IF starts_with(s, PATH_SEP) THEN FALSE
            ELSE TRUE
      IN  IF ~struct_ok THEN Err("InvalidPath")
          ELSE IF \E i \in 1..Len(s) : is_control(s[i]) THEN Err("InvalidPath")
          ELSE Ok(s)

path_new(s) ==
    IF is_empty(s) THEN Err("InvalidPath")
    ELSE
      LET sp == split_once(s, DRIVE_SEP)
          struct_ok ==
            IF sp.some THEN
              LET drive_specifier == sp.val[1]
                  directory_path  == sp.val[2]
              IN  IF contains(drive_specifier, PATH_SEP) THEN FALSE
                  ELSE IF contains(directory_path, DRIVE_SEP) THEN FALSE
                  ELSE IF ~is_empty(directory_path)
                          /\ ~starts_with(directory_path, PATH_SEP) THEN FALSE
                  ELSE TRUE
            ELSE IF starts_with(s, PATH_SEP) THEN FALSE
            ELSE TRUE
      IN  IF ~struct_ok THEN Err("InvalidPath")
          ELSE IF \E i \in 1..Len(s) : is_control(s[i]) THEN Err("InvalidPath")
          ELSE Ok(s)

\* drive_specifier keeping the separator (off by one).
path_drive_specifier_with_sep(p) ==
    LET i == find(p, DRIVE_SEP)
    IN  IF i = 0 THEN None ELSE Some(SubSeq(p, 1, i))

path_drive_specifier(p) ==
    LET sp == split_once(p, DRIVE_SEP)
    IN  IF sp.some THEN Some(sp.val[1]) ELSE None

\* is_absolute_path asking for a non-empty drive specifier.
path_is_absolute_path_nonempty_drive(p) ==
    path_drive_specifier(p).some /\ ~is_empty(path_drive_specifier(p).val)

path_is_absolute_path(p) == path_drive_specifier(p).some

\* drive_path without the root substitution for a bare drive.
path_drive_path_no_root(p) ==
    LET sp == split_once(p, DRIVE_SEP)
    IN  IF sp.some THEN Some(sp.val[2]) ELSE Some(p)

path_drive_path(p) ==
    LET sp == split_once(p, DRIVE_SEP)
    IN  IF sp.some
        THEN IF is_empty(sp.val[2]) THEN Some(ROOT) ELSE Some(sp.val[2])
        ELSE Some(p)

\* path_directory reporting no directory at the root, as file::Path does.
path_directory_none_at_root(p) ==
    LET dp == path_drive_path(p)
    IN  IF ~dp.some THEN None
        ELSE LET sp == rsplit_once(dp.val, PATH_SEP)
             IN  IF sp.some
                 THEN IF is_empty(sp.val[1]) THEN None ELSE Some(sp.val[1])
                 ELSE Some(dp.val)

\* path_directory reporting no directory for a bare name.
path_directory_none_for_bare_name(p) ==
    LET dp == path_drive_path(p)
    IN  IF ~dp.some THEN None
        ELSE LET sp == rsplit_once(dp.val, PATH_SEP)
             IN  IF sp.some
                 THEN IF is_empty(sp.val[1]) THEN Some(ROOT) ELSE Some(sp.val[1])
                 ELSE None

\* path_directory assuming the root for a bare name.
path_directory_root_for_bare_name(p) ==
    LET dp == path_drive_path(p)
    IN  IF ~dp.some THEN None
        ELSE LET sp == rsplit_once(dp.val, PATH_SEP)
             IN  IF sp.some
                 THEN IF is_empty(sp.val[1]) THEN Some(ROOT) ELSE Some(sp.val[1])
                 ELSE Some(ROOT)

path_directory(p) ==
    LET dp == path_drive_path(p)
    IN  IF ~dp.some THEN None
        ELSE LET sp == rsplit_once(dp.val, PATH_SEP)
             IN  IF sp.some
                 THEN IF is_empty(sp.val[1]) THEN Some(ROOT) ELSE Some(sp.val[1])
                 ELSE Some(dp.val)

\* filename splitting at the first separator instead of the last.
path_filename_first_sep(p) ==
    LET dp == path_drive_path(p)
    IN  IF ~dp.some THEN None
        ELSE LET sp == split_once(dp.val, PATH_SEP)
             IN  IF sp.some
                 THEN IF is_empty(sp.val[2]) THEN None ELSE Some(sp.val[2])
                 ELSE Some(dp.val)

path_filename(p) ==
    LET dp == path_drive_path(p)
    IN  IF ~dp.some THEN None
        ELSE LET sp == rsplit_once(dp.val, PATH_SEP)
             IN  IF sp.some
                 THEN IF is_empty(sp.val[2]) THEN None ELSE Some(sp.val[2])
                 ELSE Some(dp.val)

\* extension splitting at the first '.' instead of the last.
path_extension_first_dot(p) ==
    LET fn == path_filename(p)
    IN  IF ~fn.some THEN None
        ELSE LET sp == split_once(fn.val, DOT)
             IN  IF sp.some THEN Some(sp.val[2]) ELSE None

path_extension(p) ==
    LET fn == path_filename(p)
    IN  IF ~fn.some THEN None
        ELSE LET sp == rsplit_once(fn.val, DOT)
             IN  IF sp.some THEN Some(sp.val[2]) ELSE None

\* as_str dropping a trailing separator.
path_as_str_trimmed(p) ==
    IF Len(p) > 1 /\ p[Len(p)] = PATH_SEP THEN SubSeq(p, 1, Len(p) - 1) ELSE p

path_as_str(p) == p

(***************************************************************************)
(* neotron_ffi::FfiString as file.rs uses it: a pointer and a length over  *)
(* the caller's buffer; as_str() shows the first `len` characters again.   *)
(***************************************************************************)

FfiString_new(s) == [data |-> s, len |-> Len(s)]

FfiString_as_str(f) == SubSeq(f.data, 1, f.len)

(***************************************************************************)
(* file::Path  (src/src/file.rs)                                           *)
(***************************************************************************)

file_PATH_SEP == 47
file_DRIVE_SEP == 58
file_DOT == 46

\* The string literal "/" that drive_path() returns.
file_ROOT == <<file_PATH_SEP>>

file_new(s) ==
    IF is_empty(s) THEN Err("InvalidPath")
    ELSE
      LET sp == split_once(s, file_DRIVE_SEP)
          struct_ok ==
            IF sp.some THEN
              LET drive_specifier == sp.val[1]
                  directory_path  == sp.val[2]
              IN  IF contains(drive_specifier, file_PATH_SEP) THEN FALSE
                  ELSE IF contains(directory_path, file_DRIVE_SEP) THEN FALSE
                  ELSE IF ~is_empty(directory_path)
                          /\ ~starts_with(directory_path, file_PATH_SEP) THEN FALSE
                  ELSE TRUE
            ELSE IF starts_with(s, file_PATH_SEP) THEN FALSE
            ELSE TRUE
      IN  IF ~struct_ok THEN Err("InvalidPath")
          ELSE IF \E i \in 1..Len(s) : is_control(s[i]) THEN Err("InvalidPath")
          ELSE Ok(FfiString_new(s))

file_drive_specifier(p) ==
    LET sp == split_once(FfiString_as_str(p), file_DRIVE_SEP)
    IN  IF sp.some THEN Some(sp.val[1]) ELSE None

file_is_absolute_path(p) == file_drive_specifier(p).some

file_drive_path(p) ==
    LET sp == split_once(FfiString_as_str(p), file_DRIVE_SEP)
    IN  IF sp.some
        THEN IF is_empty(sp.val[2]) THEN Some(file_ROOT) ELSE Some(sp.val[2])
        ELSE Some(FfiString_as_str(p))

file_directory(p) ==
    LET dp == file_drive_path(p)
    IN  IF ~dp.some THEN None
        ELSE LET sp == rsplit_once(dp.val, file_PATH_SEP)
             IN  IF sp.some
                 THEN IF is_empty(sp.val[1]) THEN None ELSE Some(sp.val[1])
                 ELSE Some(dp.val)

\* file_filename keeping the separator, as its doc comment writes it ("/BAR.TXT").
file_filename_with_sep(p) ==
    LET dp == file_drive_path(p)
        i  == rfind(dp.val, file_PATH_SEP)
    IN  IF i = 0 THEN Some(dp.val)
        ELSE IF i = Len(dp.val) THEN None
        ELSE Some(SubSeq(dp.val, i, Len(dp.val)))

file_filename(p) ==
    LET dp == file_drive_path(p)
    IN  IF ~dp.some THEN None
        ELSE LET sp == rsplit_once(dp.val, file_PATH_SEP)
             IN  IF sp.some
                 THEN IF is_empty(sp.val[2]) THEN None ELSE Some(sp.val[2])
                 ELSE Some(dp.val)

file_extension(p) ==
    LET fn == file_filename(p)
    IN  IF ~fn.some THEN None
        ELSE LET sp == rsplit_once(fn.val, file_DOT)
             IN  IF sp.some THEN Some(sp.val[2]) ELSE None

(***************************************************************************)
(* State machine                                                           *)
(***************************************************************************)

NotCalled == [tag |-> "NotCalled"]
NoRet == [mod |-> "none", fn |-> "none", val |-> FALSE]

Init ==
    /\ path_str \in Inputs
    /\ path = NotCalled
    /\ fpath = NotCalled
    /\ ret = NoRet

PathNew ==
    /\ path.tag = "NotCalled"
    /\ path' = path_new(path_str)
    /\ UNCHANGED <<path_str, fpath, ret>>

\* A query that parses in place: it leaves the Path holding only its drive path.
PathQuery_strips_drive(f, v) ==
    /\ path.tag = "Ok"
    /\ ret' = [mod |-> "path", fn |-> f, val |-> v]
    /\ path' = Ok(path_drive_path(path.val).val)
    /\ UNCHANGED <<path_str, fpath>>

PathQuery(f, v) ==
    /\ path.tag = "Ok"
    /\ ret' = [mod |-> "path", fn |-> f, val |-> v]
    /\ UNCHANGED <<path_str, path, fpath>>

PathIsAbsolutePath == PathQuery("is_absolute_path", path_is_absolute_path(path.val))
PathDriveSpecifier == PathQuery("drive_specifier", path_drive_specifier(path.val))
PathDrivePath == PathQuery("drive_path", path_drive_path(path.val))
PathDirectory == PathQuery("directory", path_directory(path.val))
PathFilename == PathQuery("filename", path_filename(path.val))
PathExtension == PathQuery("extension", path_extension(path.val))
PathAsStr == PathQuery("as_str", path_as_str(path.val))

FilePathNew ==
    /\ fpath.tag = "NotCalled"
    /\ fpath' = file_new(path_str)
    /\ UNCHANGED <<path_str, path, ret>>

FileQuery(f, v) ==
    /\ fpath.tag = "Ok"
    /\ ret' = [mod |-> "file", fn |-> f, val |-> v]
    /\ UNCHANGED <<path_str, path, fpath>>

FileIsAbsolutePath == FileQuery("is_absolute_path", file_is_absolute_path(fpath.val))
FileDriveSpecifier == FileQuery("drive_specifier", file_drive_specifier(fpath.val))
FileDrivePath == FileQuery("drive_path", file_drive_path(fpath.val))
FileDirectory == FileQuery("directory", file_directory(fpath.val))
FileFilename == FileQuery("filename", file_filename(fpath.val))
FileExtension == FileQuery("extension", file_extension(fpath.val))

Next ==
    \/ PathNew
    \/ PathIsAbsolutePath
    \/ PathDriveSpecifier
    \/ PathDrivePath
    \/ PathDirectory
    \/ PathFilename
    \/ PathExtension
    \/ PathAsStr
    \/ FilePathNew
    \/ FileIsAbsolutePath
    \/ FileDriveSpecifier
    \/ FileDrivePath
    \/ FileDirectory
    \/ FileFilename
    \/ FileExtension

Spec == Init /\ [][Next]_vars

(***************************************************************************)
(* Vocabulary of the claims, stated on the characters of a string and      *)
(* independent of the operators above.                                     *)
(***************************************************************************)

SLASH == 47
COLON == 58
PERIOD == 46

CountOf(s, c) == Cardinality({ i \in 1..Len(s) : s[i] = c })

HasChar(s, c) == CountOf(s, c) > 0

EndsWith(s, c) == Len(s) > 0 /\ s[Len(s)] = c

\* General category Cc.
ControlCodePoints == (0..31) \cup (127..159)

\* The path grammar: non-empty, no control character, and either no ':' and
\* not '/'-rooted, or one ':' with no '/' before it and nothing or '/' after.
Grammar(s) ==
    /\ s # <<>>
    /\ \A i \in 1..Len(s) : s[i] \notin ControlCodePoints
    /\ \/ /\ CountOf(s, COLON) = 0
          /\ s[1] # SLASH
       \/ /\ CountOf(s, COLON) = 1
          /\ \E k \in 1..Len(s) :
                /\ s[k] = COLON
                /\ \A j \in 1..(k - 1) : s[j] # SLASH
                /\ (k = Len(s) \/ s[k + 1] = SLASH)

\* i is the position of the first / last c in s.
IsFirst(s, c, i) == i \in 1..Len(s) /\ s[i] = c /\ \A j \in 1..(i - 1) : s[j] # c
IsLast(s, c, i) == i \in 1..Len(s) /\ s[i] = c /\ \A j \in (i + 1)..Len(s) : s[j] # c

\* The last query was `f` of module `m`.
Returned(m, f) == ret.mod = m /\ ret.fn = f

\* The text the constructed Path of the module of the last query wraps, and
\* its drive_path() and filename() as that module computes them.
Wrapped == IF ret.mod = "path" THEN path.val ELSE FfiString_as_str(fpath.val)
DrivePathOf == IF ret.mod = "path" THEN path_drive_path(path.val) ELSE file_drive_path(fpath.val)
FilenameOf == IF ret.mod = "path" THEN path_filename(path.val) ELSE file_filename(fpath.val)
DriveSpecifierOf ==
    IF ret.mod = "path" THEN path_drive_specifier(path.val) ELSE file_drive_specifier(fpath.val)

HD0 == <<72, 68, 48, 58>>
A_COLON == <<65, 58>>
A_COLON_SLASH_A == <<65, 58, 47, 65>>
A_SLASH == <<65, 47>>
FULL_DIR == <<72, 68, 48, 58, 47, 68, 79, 67, 85, 77, 69, 78, 84, 83, 47, 74, 85, 78, 69, 47>>
FULL_DIR_DIRECTORY == <<47, 68, 79, 67, 85, 77, 69, 78, 84, 83, 47, 74, 85, 78, 69>>

(***************************************************************************)
(* Claims                                                                  *)
(***************************************************************************)

C2_NewIsInvalidPathOrTheInput ==
    /\ path.tag \in {"NotCalled", "Ok", "Err"}
    /\ path.tag = "Err" => path.err \in Error /\ path.err = "InvalidPath" /\ DOMAIN path = {"tag", "err"}
    /\ path.tag = "Ok" => path_as_str(path.val) = path_str
    /\ Returned("path", "as_str") => ret.val = path_str
    /\ fpath.tag \in {"NotCalled", "Ok", "Err"}
    /\ fpath.tag = "Err" => fpath.err = "InvalidPath" /\ DOMAIN fpath = {"tag", "err"}
    /\ fpath.tag = "Ok" => FfiString_as_str(fpath.val) = path_str

\* as_str() has returned on a Path whose text ends with a separator.
C2_Witness ==
    /\ Returned("path", "as_str")
    /\ EndsWith(path_str, SLASH)
    /\ ret.val = path_str

\* C3: in path::Path, when drive_path() contains '/', directory() is the
\* part of drive_path() before its last '/', or the root "/" when that part
\* is empty ("D:" and "D:/NAME" give "/", "D:/A/B/" gives "/A/B", "A/" "A").
C3_PathDirectoryIsBeforeLastSep ==
    Returned("path", "directory") =>
        LET dp == path_drive_path(path.val).val
        IN  /\ HasChar(dp, SLASH) =>
                \E i \in 1..Len(dp) :
                    /\ IsLast(dp, SLASH, i)
                    /\ ret.val = Some(IF i = 1 THEN <<SLASH>> ELSE SubSeq(dp, 1, i - 1))
            /\ path_str \in {HD0, A_COLON, A_COLON_SLASH_A} => ret.val = Some(<<SLASH>>)
            /\ path_str = FULL_DIR => ret.val = Some(FULL_DIR_DIRECTORY)
            /\ path_str = A_SLASH => ret.val = Some(<<65>>)

\* directory() has returned the root for the bare drive "HD0:".
C3_Witness ==
    /\ Returned("path", "directory")
    /\ path_str = HD0
    /\ ret.val = Some(<<SLASH>>)

\* C4: in file::Path, for a drive-qualified Path whose drive_path() has
\* nothing before its last '/' (a bare drive, a root-level name),
\* directory() reports the root "/".
C4_FileDirectoryIsRootOnDrive ==
    (/\ Returned("file", "directory")
     /\ HasChar(path_str, COLON)
     /\ IsLast(file_drive_path(fpath.val).val, SLASH, 1))
        => ret.val = Some(<<SLASH>>)

\* The claim's cases are reached: directory() of file::Path has returned
\* for the bare drive "HD0:".
C4_Reached ==
    /\ Returned("file", "directory")
    /\ path_str = HD0

C6_ExtensionIsAfterLastDot ==
    (Returned("path", "extension") \/ Returned("file", "extension")) =>
        LET fn == FilenameOf
        IN  /\ (~fn.some \/ ~HasChar(fn.val, PERIOD)) => ret.val = None
            /\ (fn.some /\ HasChar(fn.val, PERIOD)) =>
                /\ ret.val.some
                /\ \E i \in 1..Len(fn.val) :
                      /\ IsLast(fn.val, PERIOD, i)
                      /\ ret.val.val = SubSeq(fn.val, i + 1, Len(fn.val))
                /\ ~HasChar(ret.val.val, PERIOD)
                /\ ~HasChar(ret.val.val, SLASH)
            /\ ret.val.some =>
                \E i \in 1..Len(path_str) :
                    /\ path_str[i] = PERIOD
                    /\ \A j \in (i + 1)..Len(path_str) : path_str[j] \notin {SLASH, COLON}
            /\ path_str = <<65, PERIOD>> => ret.val = Some(<<>>)
            /\ path_str = <<PERIOD, 65>> => ret.val = Some(<<65>>)

\* extension() has returned none although the string holds a '.', which is
\* in the drive specifier or in a directory segment.
C6_Witness ==
    /\ Returned("path", "extension")
    /\ HasChar(path_str, PERIOD)
    /\ FilenameOf.some
    /\ ret.val = None

\* C7: drive_specifier() is none when the string has no ':', and otherwise
\* the substring before the first ':'; it contains neither ':' nor '/'.
C7_DriveSpecifierIsBeforeFirstColon ==
    (Returned("path", "drive_specifier") \/ Returned("file", "drive_specifier")) =>
        /\ ~HasChar(path_str, COLON) => ret.val = None
        /\ HasChar(path_str, COLON) =>
            \E k \in 1..Len(path_str) :
                /\ IsFirst(path_str, COLON, k)
                /\ ret.val = Some(SubSeq(path_str, 1, k - 1))
        /\ ret.val.some => ~HasChar(ret.val.val, COLON) /\ ~HasChar(ret.val.val, SLASH)

\* drive_specifier() has returned a non-empty drive.
C7_Witness ==
    /\ Returned("path", "drive_specifier")
    /\ ret.val.some
    /\ ret.val.val # <<>>

\* C8: drive_path() is never none: it is the substring after the first ':'
\* ("/" when that is empty), or the whole string when there is no ':'.  It
\* is never empty, has no ':', and starts with '/' exactly on
\* drive-qualified paths.
C8_DrivePathIsAfterFirstColon ==
    (Returned("path", "drive_path") \/ Returned("file", "drive_path")) =>
        /\ ret.val.some
        /\ ~HasChar(path_str, COLON) => ret.val.val = path_str
        /\ HasChar(path_str, COLON) =>
            \E k \in 1..Len(path_str) :
                /\ IsFirst(path_str, COLON, k)
                /\ ret.val.val = IF k = Len(path_str) THEN <<SLASH>>
                                 ELSE SubSeq(path_str, k + 1, Len(path_str))
        /\ ret.val.val # <<>>
        /\ ~HasChar(ret.val.val, COLON)
        /\ HasChar(path_str, COLON) <=> ret.val.val[1] = SLASH

\* drive_path() has returned the root for a bare drive.
C8_Witness ==
    /\ Returned("path", "drive_path")
    /\ EndsWith(path_str, COLON)
    /\ ret.val = Some(<<SLASH>>)

\* C9: is_absolute_path() is true exactly when drive_specifier() is not
\* none, which is exactly when the string contains a ':'.
C9_AbsoluteIffDriveSpecifier ==
    (Returned("path", "is_absolute_path") \/ Returned("file", "is_absolute_path")) =>
        /\ ret.val <=> DriveSpecifierOf.some
        /\ ret.val <=> HasChar(path_str, COLON)

\* is_absolute_path() has returned true on a Path with an empty drive specifier.
C9_Witness ==
    /\ Returned("path", "is_absolute_path")
    /\ ret.val = TRUE
    /\ path_str[1] = COLON

C11_BareNameHasNoDirectory ==
    (/\ (Returned("path", "directory") \/ Returned("file", "directory"))
     /\ ~HasChar(path_str, COLON)
     /\ ~HasChar(path_str, SLASH))
        => ret.val = None

\* directory() has returned for a bare name with an extension.
C11_Reached ==
    /\ Returned("file", "directory")
    /\ ~HasChar(path_str, COLON)
    /\ ~HasChar(path_str, SLASH)
    /\ HasChar(path_str, PERIOD)

\* The string rebuilt from the parts of a path::Path as
\* [drive_specifier ':'] directory '/' filename: absent parts are omitted
\* and the separator is not doubled after the root directory "/".
Rebuild(p) ==
    LET ds == path_drive_specifier(p)
        d  == path_directory(p)
        f  == path_filename(p)
    IN  (IF ds.some THEN ds.val \o <<COLON>> ELSE <<>>)
        \o (IF ~d.some THEN <<>>
            ELSE IF d.val = <<SLASH>> THEN <<SLASH>>
            ELSE d.val \o <<SLASH>>)
        \o (IF f.some THEN f.val ELSE <<>>)

\* C12: structural round-trip: for every accepted string s, the string
\* rebuilt from drive_specifier, directory and filename is s itself, or s
\* with the root made explicit for a bare drive ("D:" gives "D:/").
C12_RebuildRoundTrip ==
    path.tag = "Ok" =>
        \/ Rebuild(path.val) = path_str
        \/ /\ EndsWith(path_str, COLON)
           /\ Rebuild(path.val) = path_str \o <<SLASH>>

\* A Path has been constructed from a bare name and its filename queried.
C12_Reached ==
    /\ Returned("path", "filename")
    /\ ~HasChar(path_str, COLON)
    /\ ~HasChar(path_str, SLASH)

\* C13: every string the Path documentation lists as an example of a valid
\* path is accepted by Path::new of the same module.
C13_DocExamplesAreAccepted ==
    /\ (path_str \in PathDocExamples /\ path.tag # "NotCalled") => path.tag = "Ok"
    /\ (path_str \in FileDocExamples /\ fpath.tag # "NotCalled") => fpath.tag = "Ok"

\* file::Path::new has been called on the documented device path with parameters.
C13_Reached ==
    /\ path_str = SER0_WITH_PARAMETERS
    /\ fpath.tag # "NotCalled"

\* The structural rules of the grammar alone: non-empty, and the drive,
\* colon and slash rules, whatever the characters.
StructurallyValid(s) ==
    /\ s # <<>>
    /\ \/ /\ CountOf(s, COLON) = 0
          /\ s[1] # SLASH
       \/ /\ CountOf(s, COLON) = 1
          /\ \E k \in 1..Len(s) :
                /\ s[k] = COLON
                /\ \A j \in 1..(k - 1) : s[j] # SLASH
                /\ (k = Len(s) \/ s[k + 1] = SLASH)

\* Printable ASCII, or any code point at or above 0x80.
PrintableOrNonAscii(ch) == (ch >= 32 /\ ch <= 126) \/ ch >= 128

\* C14: the character rule as documented: Path::new rejects every string
\* holding a code point below 32, and accepts every structurally valid
\* string whose characters are printable ASCII or code points >= 0x80.
C14_CharacterRuleAsDocumented ==
    /\ (path.tag # "NotCalled" /\ \E i \in 1..Len(path_str) : path_str[i] < 32)
            => path.tag = "Err"
    /\ (fpath.tag # "NotCalled" /\ \E i \in 1..Len(path_str) : path_str[i] < 32)
            => fpath.tag = "Err"
    /\ (/\ path.tag # "NotCalled"
        /\ StructurallyValid(path_str)
        /\ \A i \in 1..Len(path_str) : PrintableOrNonAscii(path_str[i]))
            => path.tag = "Ok"
    /\ (/\ fpath.tag # "NotCalled"
        /\ StructurallyValid(path_str)
        /\ \A i \in 1..Len(path_str) : PrintableOrNonAscii(path_str[i]))
            => fpath.tag = "Ok"

\* Path::new has been called on a structurally valid string holding U+0080.
C14_Reached ==
    /\ path.tag # "NotCalled"
    /\ StructurallyValid(path_str)
    /\ HasChar(path_str, 128)
    /\ \A i \in 1..Len(path_str) : PrintableOrNonAscii(path_str[i])

\* v is a contiguous substring of s.
IsSubstring(v, s) ==
    \E i \in 1..(Len(s) + 1) : \E j \in 0..Len(s) : v = SubSeq(s, i, j)

ViewQueries == {"drive_specifier", "drive_path", "directory", "filename", "extension"}

\* C15 as stated: every non-none result of drive_specifier(), drive_path(),
\* directory(), filename() and extension() is a contiguous substring of the
\* string given to Path::new.
C15_EveryViewIsSubstringOfInput ==
    (ret.mod \in {"path", "file"} /\ ret.fn \in ViewQueries /\ ret.val.some)
        => IsSubstring(ret.val.val, path_str)

\* C15 as amended: every non-none result of drive_specifier(), filename()
\* and extension() is a contiguous substring of the input; so is that of
\* drive_path() unless the input is a bare drive, and that of directory()
\* unless nothing precedes the last '/' of drive_path(): there the result
\* is the literal "/", whose text is in the input unless it is a bare drive.
C15_ViewIsSubstringOrRootLiteral ==
    (ret.mod \in {"path", "file"} /\ ret.fn \in ViewQueries /\ ret.val.some) =>
        /\ ret.fn \in {"drive_specifier", "filename", "extension"}
                => IsSubstring(ret.val.val, path_str)
        /\ ret.fn = "drive_path" =>
                IF EndsWith(path_str, COLON)
                THEN ret.val.val = <<SLASH>>
                ELSE IsSubstring(ret.val.val, path_str)
        /\ ret.fn = "directory" =>
                IF IsLast(DrivePathOf.val, SLASH, 1)
                THEN ret.val.val = <<SLASH>>
                ELSE IsSubstring(ret.val.val, path_str)
        /\ ~EndsWith(path_str, COLON) => IsSubstring(ret.val.val, path_str)

\* drive_path() of file::Path has returned, for a bare drive, a "/" that
\* the input does not hold.
C15_Witness ==
    /\ Returned("file", "drive_path")
    /\ EndsWith(path_str, COLON)
    /\ ret.val.some
    /\ ~IsSubstring(ret.val.val, path_str)

\* What query f of module m returns on a Path built afresh from s.
FreshResult(m, f, s) ==
    IF m = "path" THEN
        LET p == path_new(s).val
        IN  CASE f = "is_absolute_path" -> path_is_absolute_path(p)
              [] f = "drive_specifier" -> path_drive_specifier(p)
              [] f = "drive_path" -> path_drive_path(p)
              [] f = "directory" -> path_directory(p)
              [] f = "filename" -> path_filename(p)
              [] f = "extension" -> path_extension(p)
              [] f = "as_str" -> path_as_str(p)
    ELSE
        LET p == file_new(s).val
        IN  CASE f = "is_absolute_path" -> file_is_absolute_path(p)
              [] f = "drive_specifier" -> file_drive_specifier(p)
              [] f = "drive_path" -> file_drive_path(p)
              [] f = "directory" -> file_directory(p)
              [] f = "filename" -> file_filename(p)
              [] f = "extension" -> file_extension(p)

\* No step changes the caller's string or a constructed Path, and the same
\* query called again returns what it returned before.
C16_Step ==
    /\ path_str' = path_str
    /\ path.tag = "Ok" => path' = path
    /\ fpath.tag = "Ok" => fpath' = fpath
    /\ (ret'.mod = ret.mod /\ ret'.fn = ret.fn) => ret' = ret

SharedQueries == {"is_absolute_path", "drive_specifier", "drive_path", "filename", "extension"}

\* C17: outside directory() the two Path implementations agree:
\* path::Path::new and file::Path::new accept the same strings, and on
\* every accepted string is_absolute_path(), drive_specifier(),
\* drive_path(), filename() and extension() return equal results.
C17_PathAndFilePathAgree ==
    /\ (path.tag # "NotCalled" /\ fpath.tag # "NotCalled") => path.tag = fpath.tag
    /\ (path.tag = "Ok" /\ fpath.tag = "Ok") =>
        /\ path.val = FfiString_as_str(fpath.val)
        /\ (ret.mod = "path" /\ ret.fn \in SharedQueries)
                => ret.val = FreshResult("file", ret.fn, path_str)
        /\ (ret.mod = "file" /\ ret.fn \in SharedQueries)
                => ret.val = FreshResult("path", ret.fn, path_str)

\* filename() of file::Path has returned a name after a directory part,
\* with a path::Path over the same string constructed.
C17_Witness ==
    /\ path.tag = "Ok"
    /\ fpath.tag = "Ok"
    /\ Returned("file", "filename")
    /\ ret.val.some
    /\ HasChar(path_str, SLASH)

====
